---- MODULE Spec2Model ----
(***************************************************************************)
(* Eurogames web: the Alpine.js stores and form components of the page    *)
(* (app, games, plays, stats), the requests they send through the page's   *)
(* API client, the derived filtered/sorted views, and the worker that      *)
(* proxies API requests to the backend (src/index.ts, src/api.ts).         *)
(*                                                                         *)
(* JavaScript values are encoded as follows.                               *)
(*   - an optional value (null / undefined / absent key) is None == <<>>,  *)
(*     a present value x is Some(x) == <<x>>;                              *)
(*   - an array is a sequence;                                             *)
(*   - a string used only as an opaque message is a TLA+ string; a string  *)
(*     whose characters matter (names, filters) is a sequence of character *)
(*     codes (see the derived-view part).                                  *)
(***************************************************************************)
EXTENDS Bags, FiniteSets, Integers, Sequences, TLC

\* ------------------------------------------------------------------ bounds

\* Largest number of HTTP requests in flight at the same time.
MaxInFlight == 2

\* Largest number of items the backend holds in one collection.
MaxItems == 1

\* Largest number of collections (games, plays, winners, totals, lastPlayed,
\* recent) that the user's own calls of loaders and mutations work with at a
\* time. Navigation with setView is not limited by it.
MaxActive == 1

\* Longest list the derived views are computed on.
MaxLen == 3

\* Pending auto-dismiss timers are counted up to this number.
MaxTimers == 2

\* ------------------------------------------------------- optional values

None == <<>>

Some(x) == <<x>>

IsSome(o) == o # None

Get(o) == o[1]

\* JavaScript truthiness of an optional string: absent and "" are falsy.
TruthyStr(o) == IsSome(o) /\ Get(o) # ""

\* a || b for an optional string a and a string b.
OrElse(o, dflt) == IF TruthyStr(o) THEN Get(o) ELSE dflt

\* ------------------------------------------------------------ vocabulary

Views == {"games", "plays", "stats", "lastPlayed"}

ListStores == {"games", "plays"}

StatsFields == {"winners", "totals", "lastPlayed", "recent"}

LoadOps == {"games.load", "plays.load", "stats.loadWinStats",
            "stats.loadTotalStats", "stats.loadLastPlayed", "stats.loadRecent"}

MutationOps == {"games.add", "games.updateNotes", "plays.record", "plays.delete"}

\* The store an operation belongs to.
Owner(op) ==
  CASE op \in {"games.load", "games.add", "games.updateNotes"} -> "games"
    [] op \in {"plays.load", "plays.record", "plays.delete"} -> "plays"
    [] OTHER -> "stats"

\* The store field a loader assigns.
Field(op) ==
  CASE op = "games.load" -> "games"
    [] op = "plays.load" -> "plays"
    [] op = "stats.loadWinStats" -> "winners"
    [] op = "stats.loadTotalStats" -> "totals"
    [] op = "stats.loadLastPlayed" -> "lastPlayed"
    [] OTHER -> "recent"

\* The loaders that drive the shared loading flag.
ShowsLoading(op) ==
  op \in {"games.load", "plays.load", "stats.loadWinStats", "stats.loadTotalStats"}

\* The literal on the right of `response.error || '...'` in each operation.
DefaultMessage(op) ==
  CASE op = "games.load" -> "Failed to load games"
    [] op = "games.add" -> "Failed to add game"
    [] op = "games.updateNotes" -> "Failed to update notes"
    [] op = "plays.load" -> "Failed to load plays"
    [] op = "plays.record" -> "Failed to record play"
    [] op = "plays.delete" -> "Failed to delete play"
    [] op = "stats.loadWinStats" -> "Failed to load win stats"
    [] op = "stats.loadTotalStats" -> "Failed to load total stats"
    [] op = "stats.loadLastPlayed" -> "Failed to load last played"
    [] OTHER -> "Failed to load recent plays"

\* An element of a collection: a game, a play or a statistics row.
Item(i, n) == [id |-> i, notes |-> n]

NoArg == Item(0, "")

Ids == 1..MaxItems

NoteTexts == {"n"}

\* ------------------------------------------------------------- variables

VARIABLES
  loading,        \* $store.app.loading
  error,          \* $store.app.error: None or Some(message)
  currentView,    \* $store.app.currentView
  timers,         \* pending setTimeout callbacks of setError
  list,           \* [games |-> $store.games.list, plays |-> $store.plays.list]
  sortBy,         \* [games |-> $store.games.sortBy, plays |-> ...]
  sortDirection,  \* [games |-> $store.games.sortDirection, plays |-> ...]
  stats,          \* $store.stats: winners, totals, lastPlayed, recent
  net,            \* bag of requests awaiting their response
  upstream,       \* the backend's collections
  lastReturn,     \* None, or Some(value returned by the last mutation that returned)
  sync,           \* per list store: a mutation succeeded and every request of
                  \* the store that resolved since then resolved successfully
  started,        \* per view: setView has started a load for it in this session
  filter,         \* [games |-> $store.games.filter, plays |-> $store.plays.filter]
  statusFilter,   \* $store.games.statusFilter
  shown,          \* per list store: None, or Some(the sequence the last read of
                  \* the getter `filtered` returned)
  forms,          \* the data of the components addGameForm and recordPlayForm
  env,            \* the worker's environment bindings (Env)
  incoming,       \* None, or Some(the HTTP request the worker is handling)
  outgoing,       \* None, or Some(the request ApiClient.request has sent)
  reply,          \* None, or Some(what the backend did with that request)
  result,         \* None, or Some(the envelope ApiClient.request resolved to)
  response        \* None, or Some(the Response the worker returned)

\* The worker's variables.
workerVars == <<env, incoming, outgoing, reply, result, response>>

vars == <<loading, error, currentView, timers, list, sortBy, sortDirection,
          stats, net, upstream, lastReturn, sync, started,
          filter, statusFilter, shown, forms, workerVars>>

\* ------------------------------------------------------ requests, backend

\* A request in flight. cont names who awaits it: the form component whose
\* submit() called the mutation, else the mutation whose `await this.load()` the
\* request is ("" when the load was started on its own). resp is None until
\* the backend has answered; then it is Some(collection read) for a loader
\* and Some(<<>>) for a mutation the backend has carried out.
NewRequest(op, arg, cont) ==
  [op |-> op, arg |-> arg, cont |-> cont, resp |-> None]

\* The envelope {success, data, error} the frontend receives. data is None
\* (absent) or Some(c), with c None when the collection key is absent and
\* Some(array) when it is present.
Envelope(success, data, err) == [success |-> success, data |-> data, error |-> err]

\* A failed outcome: the catch branch of api._fetch, or a body with success
\* false; the error text is absent, empty or a message.
FailResponses ==
  {Envelope(FALSE, None, e) : e \in {None, Some(""), Some("HTTP 500")}}

\* The bodies that may come back for a request: a failure at any time; once
\* the backend has answered, also a success, for a loader with the data
\* absent, without the collection key, or with the collection read.
Outcomes(r) ==
  FailResponses \cup
    (IF r.resp = None THEN {}
     ELSE IF r.op \in MutationOps THEN {Envelope(TRUE, None, None)}
     ELSE {Envelope(TRUE, None, None),
           Envelope(TRUE, Some(None), None),
           Envelope(TRUE, Some(Some(Get(r.resp))), None)})

\* The collection the backend reads for a loader.
Snapshot(op) ==
  IF Field(op) \in {"games", "winners", "lastPlayed"}
  THEN upstream["games"] ELSE upstream["plays"]

IdsOf(seq) == {seq[i].id : i \in DOMAIN seq}

FreeId(seq) == CHOOSE i \in Ids : i \notin IdsOf(seq) /\ \A j \in Ids : j < i => j \in IdsOf(seq)

\* Whether the backend can carry out a mutation on its collection.
Applicable(op, arg, seq) ==
  CASE op = "games.add" -> arg.id \notin IdsOf(seq) /\ Len(seq) < MaxItems
    [] op = "plays.record" -> Len(seq) < MaxItems
    [] OTHER -> arg.id \in IdsOf(seq)

\* The backend's collection after a mutation.
Applied(op, arg, seq) ==
  CASE op = "games.add" -> Append(seq, Item(arg.id, ""))
    [] op = "games.updateNotes" ->
         [i \in DOMAIN seq |-> IF seq[i].id = arg.id THEN Item(arg.id, arg.notes) ELSE seq[i]]
    [] op = "plays.record" -> Append(seq, Item(FreeId(seq), ""))
    [] OTHER -> SelectSeq(seq, LAMBDA x : x.id # arg.id)

One(r) == SetToBag({r})

InFlight == BagCardinality(net)

\* The requests of a list store that have not resolved yet.
Pending(s) == {r \in BagToSet(net) : Owner(r.op) = s}

Quiescent(s) == Pending(s) = {}

\* The backend answers a loader's request r with the collection as it
\* stands.
ServeLoad(r) ==
  /\ r \in BagToSet(net)
  /\ r.resp = None
  /\ r.op \in LoadOps
  /\ net' = (net (-) One(r)) (+) One([r EXCEPT !.resp = Some(Snapshot(r.op))])
  /\ UNCHANGED <<loading, error, currentView, timers, list, sortBy,
                 sortDirection, stats, upstream, lastReturn, sync, started,
                 filter, statusFilter, shown, forms, workerVars>>

\* The backend carries out the mutation of request r, when it accepts it.
ServeMutation(r) ==
  /\ r \in BagToSet(net)
  /\ r.resp = None
  /\ r.op \in MutationOps
  /\ Applicable(r.op, r.arg, upstream[Owner(r.op)])
  /\ net' = (net (-) One(r)) (+) One([r EXCEPT !.resp = Some(<<>>)])
  /\ upstream' = [upstream EXCEPT ![Owner(r.op)] = Applied(r.op, r.arg, @)]
  /\ UNCHANGED <<loading, error, currentView, timers, list, sortBy,
                 sortDirection, stats, lastReturn, sync, started, filter,
                 statusFilter, shown, forms, workerVars>>

\* ------------------------------------------------------------- app store

TimersAfterSetErrorWithoutTimeout == timers

\* app.setError(message): the message is shown and one more timer is pending.
TimersAfterSetError == IF timers < MaxTimers THEN timers + 1 ELSE MaxTimers

\* The callback of setError's setTimeout. All timers have the same delay,
\* so the one that runs is the oldest one pending.
TimerFire ==
  /\ timers > 0
  /\ timers' = timers - 1
  /\ error' = None
  /\ UNCHANGED <<loading, currentView, list, sortBy, sortDirection,
                 stats, net, upstream, lastReturn, sync, started,
          filter, statusFilter, shown, forms, workerVars>>

\* app.clearError()
ClearError ==
  /\ error' = None
  /\ UNCHANGED <<loading, currentView, timers, list, sortBy,
                 sortDirection, stats, net, upstream, lastReturn, sync, started,
          filter, statusFilter, shown, forms, workerVars>>

\* ------------------------------------------------------- form components

Forms == {"addGameForm", "recordPlayForm"}

\* new Date().toISOString().split('T')[0]: the text of the current day, the
\* same day throughout the session.
TodayText == <<"d">>

\* The data of the two components as Alpine.data creates them.
InitialForms ==
  [addGameForm |-> [bggId |-> <<>>, submitting |-> FALSE, error |-> None],
   recordPlayForm |-> [gameId |-> <<>>, date |-> TodayText, players |-> <<>>,
                       winner |-> <<>>, notes |-> <<>>,
                       submitting |-> FALSE, error |-> None]]

\* The draft fields of a form.
Drafts(form) ==
  IF form = "addGameForm" THEN {"bggId"}
  ELSE {"gameId", "date", "players", "winner", "notes"}

FormsAfterSettleAlwaysReset(form, success) ==
  IF form \notin Forms THEN forms
  ELSE [forms EXCEPT ![form] =
          [k \in DOMAIN forms[form] |->
             IF k = "submitting" THEN FALSE
             ELSE IF k \in Drafts(form) THEN InitialForms[form][k]
             ELSE forms[form][k]]]

\* The forms after the mutation awaited by submit() of form has returned
\* success: submitting is false again, and the drafts are reset on success.
FormsAfterSettle(form, success) ==
  IF form \notin Forms THEN forms
  ELSE [forms EXCEPT ![form] =
          [k \in DOMAIN forms[form] |->
             IF k = "submitting" THEN FALSE
             ELSE IF success /\ k \in Drafts(form) THEN InitialForms[form][k]
             ELSE forms[form][k]]]

\* ---------------------------------------------------------------- loaders

\* The loader of a list store.
LoaderOf(s) == IF s = "games" THEN "games.load" ELSE "plays.load"

\* app.loading after the loaders in ops have run up to their network call:
\* those that call app.setLoading(true, ...) set it. (The message shown with
\* the flag, app.loadingMessage, is display text no operation reads.)
LoadingAfterStart(ops) == loading \/ \E op \in ops : ShowsLoading(op)

\* The requests sent by starting the loaders in ops.
Requests(ops, cont) == SetToBag({NewRequest(op, NoArg, cont) : op \in ops})

\* `response.success && response.data`
LoadSucceeded(resp) == resp.success /\ IsSome(resp.data)

LoadedValueKeepsOld(resp, old) ==
  IF LoadSucceeded(resp)
  THEN IF IsSome(Get(resp.data)) THEN Get(Get(resp.data)) ELSE <<>>
  ELSE old

LoadedValueMerges(resp, old) ==
  IF LoadSucceeded(resp)
  THEN IF IsSome(Get(resp.data)) THEN old \o Get(Get(resp.data)) ELSE old
  ELSE <<>>

\* The value a loader assigns to its collection: `response.data.<key> || []`
\* on success, `[]` otherwise. old is the collection's value before.
LoadedValue(resp, old) ==
  IF LoadSucceeded(resp)
  THEN IF IsSome(Get(resp.data)) THEN Get(Get(resp.data)) ELSE <<>>
  ELSE <<>>

\* The message a failed operation reports: `response.error || '<default>'`.
FailureMessage(op, resp) == OrElse(resp.error, DefaultMessage(op))

\* A response that carries the collection the loader asked for.
WellFormed(resp) == LoadSucceeded(resp) /\ IsSome(Get(resp.data))

\* The collection an operation reads or changes.
CollectionOf(op) == IF op \in LoadOps THEN Field(op) ELSE Owner(op)

\* A collection that holds data or has a request in flight.
Busy(f) ==
  \/ f \in ListStores /\ list[f] # <<>>
  \/ f \in StatsFields /\ IsSome(stats[f])
  \/ \E r \in BagToSet(net) : CollectionOf(r.op) = f

WithinActive(op) ==
  Cardinality({f \in ListStores \cup StatsFields : Busy(f)} \cup {CollectionOf(op)})
    <= MaxActive

\* A loader up to its network call: app.setLoading(true, ...) and the request.
StartLoad(op) ==
  /\ op \in LoadOps
  /\ InFlight < MaxInFlight
  /\ loading' = LoadingAfterStart({op})
  /\ net' = net (+) Requests({op}, "")
  /\ UNCHANGED <<error, currentView, timers, list, sortBy, sortDirection, stats,
                 upstream, lastReturn, sync, started, filter, statusFilter, shown, forms, workerVars>>

\* A direct call of one of the six loaders (games.load(), stats.loadRecent(), ...).
CallLoad(op) == WithinActive(op) /\ StartLoad(op)

LoadingAfterSettleOnSuccessOnly(op, resp) ==
  IF ShowsLoading(op) /\ LoadSucceeded(resp) THEN FALSE ELSE loading

\* app.loading after a loader's response has been handled: the loaders that
\* show the flag call app.setLoading(false) after the if/else on the response.
LoadingAfterSettle(op, resp) == IF ShowsLoading(op) THEN FALSE ELSE loading

\* The rest of a loader once api._fetch has resolved to resp, followed by
\* the rest of the mutation that awaited it, if any.
SettleLoad(r, resp) ==
  LET f == Field(r.op)
      failed == ~LoadSucceeded(resp)
  IN /\ r \in BagToSet(net)
     /\ r.op \in LoadOps
     /\ net' = net (-) One(r)
     /\ IF f \in ListStores
        THEN /\ list' = [list EXCEPT ![f] = LoadedValue(resp, @)]
             /\ sync' = [sync EXCEPT ![f] = @ /\ WellFormed(resp)]
             /\ UNCHANGED stats
        ELSE /\ stats' = [stats EXCEPT ![f] =
                            Some(LoadedValue(resp, IF IsSome(@) THEN Get(@) ELSE <<>>))]
             /\ UNCHANGED <<list, sync>>
     /\ error' = IF failed THEN Some(FailureMessage(r.op, resp)) ELSE error
     /\ timers' = IF failed THEN TimersAfterSetError ELSE timers
     /\ loading' = LoadingAfterSettle(r.op, resp)
     /\ lastReturn' = IF r.cont # "" THEN Some(TRUE) ELSE lastReturn
     /\ forms' = FormsAfterSettle(r.cont, TRUE)
     /\ UNCHANGED <<currentView, sortBy, sortDirection, upstream, started, filter, statusFilter, shown, workerVars>>

\* A loader's request is answered with one of the bodies the worker and the
\* backend produce.
DeliverLoad(r, resp) ==
  /\ resp \in Outcomes(r)
  /\ SettleLoad(r, resp)

\* A truthy value that is not an array (a text, a number, an object) in the
\* place of a collection; the loader assigns it as it is.
NotAnArray == <<Item(0, "not an array")>>

\* The values response.json() can resolve to, as api._fetch returns them:
\* null, a value that is not an object (a number, a text, a boolean), and
\* an object, given by what the loader reads from it: one without success,
\* one with success and without data, data without the collection's key,
\* data whose collection is not an array, and data with the collection.
HandedBodies ==
  {[json |-> j, envelope |-> Envelope(FALSE, None, None)] : j \in {"null", "value"}}
  \cup {[json |-> "object", envelope |-> e] :
          e \in {Envelope(FALSE, None, None),
                  Envelope(TRUE, None, None),
                  Envelope(TRUE, Some(None), None),
                  Envelope(TRUE, Some(Some(NotAnArray)), None),
                  Envelope(TRUE, Some(Some(<<Item(1, "")>>)), None)}}

\* A loader whose api._fetch resolves to body. Reading response.success of
\* null throws a TypeError: the loader's promise rejects there, and so
\* does every caller that awaits it. A property of a value that is not an
\* object is undefined.
HandBody(r, body) ==
  /\ body \in HandedBodies
  /\ IF body.json = "null"
     THEN /\ r \in BagToSet(net)
          /\ r.op \in LoadOps
          /\ net' = net (-) One(r)
          /\ UNCHANGED <<loading, error, currentView, timers, list, sortBy,
                         sortDirection, stats, upstream, lastReturn, sync, started,
                         filter, statusFilter, shown, forms, workerVars>>
     ELSE SettleLoad(r, body.envelope)

\* -------------------------------------------------------------- mutations

\* The loaders a mutation starts once its own call has succeeded.
ReloadsAfter(op) == {LoaderOf(Owner(op))}

\* games.add(bggId), games.updateNotes(id, notes), plays.record(playData),
\* plays.delete(id) after confirm(): up to the network call.
CallMutation(op, arg) ==
  /\ op \in MutationOps
  /\ InFlight < MaxInFlight
  /\ WithinActive(op)
  /\ net' = net (+) One(NewRequest(op, arg, ""))
  /\ UNCHANGED <<loading, error, currentView, timers, list, sortBy,
                 sortDirection, stats, upstream, lastReturn, sync, started, filter, statusFilter, shown, forms, workerVars>>

GamesAdd == \E bggId \in Ids : CallMutation("games.add", Item(bggId, ""))

GamesUpdateNotes ==
  \E id \in Ids, notes \in NoteTexts : CallMutation("games.updateNotes", Item(id, notes))

PlaysRecord == CallMutation("plays.record", NoArg)

PlaysDelete == \E id \in Ids : CallMutation("plays.delete", Item(id, ""))

\* plays.delete(id) when the user answers the confirm() dialog with Cancel.
PlaysDeleteCancelled ==
  /\ lastReturn' = Some(FALSE)
  /\ UNCHANGED <<loading, error, currentView, timers, list, sortBy,
                 sortDirection, stats, net, upstream, sync, started, filter, statusFilter, shown, forms, workerVars>>

MutationSucceededAlways(resp) == TRUE

\* `if (response.success)` of a mutation
MutationSucceeded(resp) == resp.success

\* The rest of a mutation once its response has arrived.
DeliverMutation(r, resp) ==
  LET s == Owner(r.op)
  IN /\ r \in BagToSet(net)
     /\ r.op \in MutationOps
     /\ resp \in Outcomes(r)
     /\ IF MutationSucceeded(resp)
        THEN /\ net' = (net (-) One(r))
                         (+) Requests(ReloadsAfter(r.op), IF r.cont = "" THEN r.op ELSE r.cont)
             /\ loading' = LoadingAfterStart(ReloadsAfter(r.op))
             /\ sync' = [sync EXCEPT ![s] = TRUE]
             /\ UNCHANGED <<error, timers, lastReturn, forms>>
        ELSE /\ net' = net (-) One(r)
             /\ error' = Some(FailureMessage(r.op, resp))
             /\ timers' = TimersAfterSetError
             /\ lastReturn' = Some(FALSE)
             /\ sync' = [sync EXCEPT ![s] = FALSE]
             /\ forms' = FormsAfterSettle(r.cont, FALSE)
             /\ UNCHANGED loading
     /\ UNCHANGED <<currentView, list, sortBy, sortDirection, stats, upstream, started, filter, statusFilter, shown, workerVars>>

\* ------------------------------------------------------------ form submit

Digits == {"0", "1", "2"}

DigitValue(c) == CASE c = "0" -> 0 [] c = "1" -> 1 [] OTHER -> 2

\* The longest prefix of str made of digits.
RECURSIVE DigitPrefix(_)
DigitPrefix(str) ==
  IF str = <<>> \/ Head(str) \notin Digits THEN <<>>
  ELSE <<Head(str)>> \o DigitPrefix(Tail(str))

RECURSIVE DecimalValue(_)
DecimalValue(ds) ==
  IF ds = <<>> THEN 0
  ELSE 10 * DecimalValue(SubSeq(ds, 1, Len(ds) - 1)) + DigitValue(ds[Len(ds)])

\* String.prototype.trim, with " " the white space.
RECURSIVE TrimStart(_)
TrimStart(str) == IF str # <<>> /\ Head(str) = " " THEN TrimStart(Tail(str)) ELSE str

RECURSIVE TrimEnd(_)
TrimEnd(str) ==
  IF str # <<>> /\ str[Len(str)] = " " THEN TrimEnd(SubSeq(str, 1, Len(str) - 1)) ELSE str

Trim(str) == TrimEnd(TrimStart(str))

\* parseInt(str): leading white space is skipped and the digits up to the
\* first other character are read; None stands for NaN.
ParseInt(str) ==
  LET ds == DigitPrefix(TrimStart(str))
  IN IF ds = <<>> THEN None ELSE Some(DecimalValue(ds))

\* `!this.bggId || isNaN(parseInt(this.bggId))` does not hold.
BggIdAccepted(bggId) == bggId # <<>> /\ IsSome(ParseInt(bggId))

\* String.prototype.split(','): the pieces between the commas.
RECURSIVE Split(_)
Split(str) ==
  IF \A i \in DOMAIN str : str[i] # ","
  THEN <<str>>
  ELSE LET k == CHOOSE i \in DOMAIN str :
                  str[i] = "," /\ \A j \in 1..(i - 1) : str[j] # ","
       IN <<SubSeq(str, 1, k - 1)>> \o Split(SubSeq(str, k + 1, Len(str)))

\* this.players.split(',').map(p => p.trim()).filter(p => p)
PlayersArray(players) ==
  SelectSeq([i \in DOMAIN Split(players) |-> Trim(Split(players)[i])],
            LAMBDA piece : piece # <<>>)

\* The message of the first validation of recordPlayForm.submit() that
\* fails, or None.
RecordPlayInvalid(f) ==
  IF f.gameId = <<>> THEN Some("Game is required")
  ELSE IF f.date = <<>> THEN Some("Date is required")
  ELSE IF f.players = <<>> THEN Some("Players are required")
  ELSE IF Len(PlayersArray(f.players)) = 0 THEN Some("At least one player is required")
  ELSE None

\* addGameForm.submit()
AddGameSubmit ==
  LET f == forms["addGameForm"]
  IN IF ~BggIdAccepted(f.bggId)
     THEN /\ forms' = [forms EXCEPT !["addGameForm"].error = Some("Valid BGG ID is required")]
          /\ UNCHANGED <<loading, error, currentView, timers, list, sortBy,
                         sortDirection, stats, net, upstream, lastReturn, sync,
                         started, filter, statusFilter, shown, workerVars>>
     ELSE /\ InFlight < MaxInFlight
          /\ WithinActive("games.add")
          /\ forms' = [forms EXCEPT !["addGameForm"].error = None,
                                    !["addGameForm"].submitting = TRUE]
          /\ net' = net (+) One(NewRequest("games.add", Item(Get(ParseInt(f.bggId)), ""),
                                           "addGameForm"))
          /\ UNCHANGED <<loading, error, currentView, timers, list, sortBy,
                         sortDirection, stats, upstream, lastReturn, sync,
                         started, filter, statusFilter, shown, workerVars>>

\* recordPlayForm.submit()
RecordPlaySubmit ==
  LET f == forms["recordPlayForm"]
  IN IF IsSome(RecordPlayInvalid(f))
     THEN /\ forms' = [forms EXCEPT !["recordPlayForm"].error = RecordPlayInvalid(f)]
          /\ UNCHANGED <<loading, error, currentView, timers, list, sortBy,
                         sortDirection, stats, net, upstream, lastReturn, sync,
                         started, filter, statusFilter, shown, workerVars>>
     ELSE /\ InFlight < MaxInFlight
          /\ WithinActive("plays.record")
          /\ forms' = [forms EXCEPT !["recordPlayForm"].error = None,
                                    !["recordPlayForm"].submitting = TRUE]
          /\ net' = net (+) One(NewRequest("plays.record", NoArg, "recordPlayForm"))
          /\ UNCHANGED <<loading, error, currentView, timers, list, sortBy,
                         sortDirection, stats, upstream, lastReturn, sync,
                         started, filter, statusFilter, shown, workerVars>>

\* What the user types into the identifier field of addGameForm.
BggIdTexts == {<<>>, <<"1">>, <<"a">>, <<"1", "a">>, <<" ", "1">>}

\* The user types text into addGameForm's field (x-model).
TypeBggId(text) ==
  /\ forms' = [forms EXCEPT !["addGameForm"].bggId = text]
  /\ UNCHANGED <<loading, error, currentView, timers, list, sortBy,
                 sortDirection, stats, net, upstream, lastReturn, sync,
                 started, filter, statusFilter, shown, workerVars>>

\* What the user fills recordPlayForm with: gameId, date, players, winner, notes.
RecordPlayFills ==
  { << <<>>, TodayText, <<"p">>, <<"w">>, <<"n">> >>,
    << <<"g">>, <<>>, <<"p">>, <<>>, <<>> >>,
    << <<"g">>, TodayText, <<>>, <<"w">>, <<>> >>,
    << <<"g">>, TodayText, <<",", " ">>, <<>>, <<"n">> >>,
    << <<"g">>, <<"e">>, <<"p">>, <<>>, <<>> >>,
    << <<"g">>, TodayText, <<"p", ",", " ", "q">>, <<"w">>, <<"n">> >> }

\* The user fills in the fields of recordPlayForm (x-model).
FillRecordPlay(fill) ==
  /\ forms' = [forms EXCEPT !["recordPlayForm"].gameId = fill[1],
                            !["recordPlayForm"].date = fill[2],
                            !["recordPlayForm"].players = fill[3],
                            !["recordPlayForm"].winner = fill[4],
                            !["recordPlayForm"].notes = fill[5]]
  /\ UNCHANGED <<loading, error, currentView, timers, list, sortBy,
                 sortDirection, stats, net, upstream, lastReturn, sync,
                 started, filter, statusFilter, shown, workerVars>>

\* ---------------------------------------------------------------- setView

\* `!stats.winners && !stats.totals`: an array, even an empty one, is truthy.
StatsNeedLoad == ~IsSome(stats["winners"]) /\ ~IsSome(stats["totals"])

ViewLoadsUnconditional(view) ==
  IF view = "games" THEN {"games.load"}
  ELSE IF view = "plays" THEN {"plays.load"}
  ELSE IF view = "stats" /\ StatsNeedLoad
       THEN {"stats.loadWinStats", "stats.loadTotalStats"}
  ELSE {}

ViewLoadsWrongStore(view) ==
  IF view = "games" /\ Len(list["games"]) = 0 THEN {"games.load"}
  ELSE IF view = "plays" /\ Len(list["games"]) = 0 THEN {"plays.load"}
  ELSE IF view = "stats" /\ StatsNeedLoad
       THEN {"stats.loadWinStats", "stats.loadTotalStats"}
  ELSE {}

\* The loaders app.setView(view) starts.
ViewLoads(view) ==
  IF view = "games" /\ Len(list["games"]) = 0 THEN {"games.load"}
  ELSE IF view = "plays" /\ Len(list["plays"]) = 0 THEN {"plays.load"}
  ELSE IF view = "stats" /\ StatsNeedLoad
       THEN {"stats.loadWinStats", "stats.loadTotalStats"}
  ELSE {}

\* app.setView(view)
SetView(view) ==
  /\ InFlight + Cardinality(ViewLoads(view)) <= MaxInFlight
  /\ currentView' = view
  /\ error' = None
  /\ net' = net (+) Requests(ViewLoads(view), "")
  /\ loading' = LoadingAfterStart(ViewLoads(view))
  /\ started' = [v \in DOMAIN started |-> started[v] \/ (v = view /\ ViewLoads(view) # {})]
  /\ UNCHANGED <<timers, list, sortBy, sortDirection, stats, upstream, lastReturn, sync, filter, statusFilter, shown, forms, workerVars>>

\* gamesList.init()
GamesListInit ==
  /\ Len(list["games"]) = 0
  /\ StartLoad("games.load")

\* ------------------------------------------------- strings, as JavaScript

\* A string whose characters matter is a sequence of one-character strings.
LowerChar(c) == CASE c = "A" -> "a" [] c = "B" -> "b" [] OTHER -> c

\* String.prototype.toLowerCase
ToLowerCase(str) == [i \in DOMAIN str |-> LowerChar(str[i])]

\* String.prototype.includes
Includes(str, sub) ==
  \E k \in 0..(Len(str) - Len(sub)) : SubSeq(str, k + 1, k + Len(sub)) = sub

\* The letter a character stands for, in alphabetical order.
Letter(c) == IF LowerChar(c) = "a" THEN 1 ELSE 2

\* 0 for a lower-case character and 1 for an upper-case one.
CaseOf(c) == IF LowerChar(c) = c THEN 0 ELSE 1

\* Lexicographic comparison of two sequences of numbers: -1, 0 or 1.
RECURSIVE LexCompare(_, _)
LexCompare(x, y) ==
  IF x = <<>> /\ y = <<>> THEN 0
  ELSE IF x = <<>> THEN -1
  ELSE IF y = <<>> THEN 1
  ELSE IF Head(x) < Head(y) THEN -1
  ELSE IF Head(x) > Head(y) THEN 1
  ELSE LexCompare(Tail(x), Tail(y))

\* String.prototype.localeCompare: by letters first; strings with the same
\* letters are told apart by case, lower case first.
LocaleCompare(x, y) ==
  LET byLetter == LexCompare([i \in DOMAIN x |-> Letter(x[i])],
                             [i \in DOMAIN y |-> Letter(y[i])])
  IN IF byLetter # 0 THEN byLetter
     ELSE LexCompare([i \in DOMAIN x |-> CaseOf(x[i])], [i \in DOMAIN y |-> CaseOf(y[i])])

\* a || '' for an optional string
OrEmpty(o) == IF IsSome(o) THEN Get(o) ELSE <<>>

\* a || d for an optional number: 0 is falsy like an absent value
OrNumber(o, d) == IF IsSome(o) /\ Get(o) # 0 THEN Get(o) ELSE d

\* new Date(text).getTime() for a date given by its day number
GetTime(day) == day * 86400000

\* ------------------------------------------------------- derived views

GamesColumns == {"name", "status", "ranking", "complexity", "games", "lastPlayed"}

PlaysColumns == {"date", "gameName", "players", "winner"}

GameMatchesTextCaseSensitive(g, text) ==
  \/ Includes(ToLowerCase(g.name), text)
  \/ (IsSome(g.status) /\ Get(g.status) # <<>>
      /\ Includes(ToLowerCase(Get(g.status)), text))

\* The text filter of games.filtered on one game.
GameMatchesText(g, text) ==
  LET filterLower == ToLowerCase(text)
  IN \/ Includes(ToLowerCase(g.name), filterLower)
     \/ (IsSome(g.status) /\ Get(g.status) # <<>>
         /\ Includes(ToLowerCase(Get(g.status)), filterLower))

\* The status filter of games.filtered on one game.
GameMatchesStatus(g, wanted) == g.status = Some(wanted)

\* Whether games.filtered keeps game g.
GameKept(g) ==
  /\ (filter["games"] # <<>> => GameMatchesText(g, filter["games"]))
  /\ (statusFilter # <<>> => GameMatchesStatus(g, statusFilter))

PlayMatchesTextAbsentWinnerMatches(p, text) ==
  LET filterLower == ToLowerCase(text)
      has(o) == IsSome(o) /\ Get(o) # <<>> /\ Includes(ToLowerCase(Get(o)), filterLower)
  IN \/ has(p.name)
     \/ ~IsSome(p.winner)
     \/ has(p.winner)
     \/ has(p.comment)
     \/ (IsSome(p.players)
         /\ \E i \in DOMAIN Get(p.players) :
              Includes(ToLowerCase(Get(p.players)[i]), filterLower))

\* The text filter of plays.filtered on one play.
PlayMatchesText(p, text) ==
  LET filterLower == ToLowerCase(text)
      has(o) == IsSome(o) /\ Get(o) # <<>> /\ Includes(ToLowerCase(Get(o)), filterLower)
  IN \/ has(p.name)
     \/ has(p.winner)
     \/ has(p.comment)
     \/ (IsSome(p.players)
         /\ \E i \in DOMAIN Get(p.players) :
              Includes(ToLowerCase(Get(p.players)[i]), filterLower))

\* Whether plays.filtered keeps play p.
PlayKept(p) == filter["plays"] # <<>> => PlayMatchesText(p, filter["plays"])

Kept(s, x) == IF s = "games" THEN GameKept(x) ELSE PlayKept(x)

\* compareResult of games.filtered's comparator for column col.
GamesCompare(col, a, b) ==
  CASE col = "name" -> LocaleCompare(a.name, b.name)
    [] col = "status" -> LocaleCompare(OrEmpty(a.status), OrEmpty(b.status))
    [] col = "ranking" -> OrNumber(a.ranking, 99999) - OrNumber(b.ranking, 99999)
    [] col = "complexity" -> OrNumber(a.complexity, 0) - OrNumber(b.complexity, 0)
    [] col = "games" -> OrNumber(a.games, 0) - OrNumber(b.games, 0)
    [] col = "lastPlayed" ->
         (IF IsSome(a.lastPlayed) THEN GetTime(Get(a.lastPlayed)) ELSE 0)
         - (IF IsSome(b.lastPlayed) THEN GetTime(Get(b.lastPlayed)) ELSE 0)
    [] OTHER -> 0

\* compareResult of plays.filtered's comparator for column col.
PlaysCompare(col, a, b) ==
  CASE col = "date" -> GetTime(a.date) - GetTime(b.date)
    [] col = "gameName" -> LocaleCompare(OrEmpty(a.name), OrEmpty(b.name))
    [] col = "players" ->
         (IF IsSome(a.players) THEN Len(Get(a.players)) ELSE 0)
         - (IF IsSome(b.players) THEN Len(Get(b.players)) ELSE 0)
    [] col = "winner" -> LocaleCompare(OrEmpty(a.winner), OrEmpty(b.winner))
    [] OTHER -> 0

CompareResult(s, col, a, b) ==
  IF s = "games" THEN GamesCompare(col, a, b) ELSE PlaysCompare(col, a, b)

\* The value the comparator returns: compareResult, negated unless ascending.
Comparator(s, a, b) ==
  IF sortDirection[s] = "asc"
  THEN CompareResult(s, sortBy[s], a, b)
  ELSE 0 - CompareResult(s, sortBy[s], a, b)

RECURSIVE InsertSortedUnstable(_, _, _)
InsertSortedUnstable(s, seq, x) ==
  IF seq = <<>> THEN <<x>>
  ELSE IF Comparator(s, seq[Len(seq)], x) >= 0
       THEN Append(InsertSortedUnstable(s, SubSeq(seq, 1, Len(seq) - 1), x), seq[Len(seq)])
       ELSE Append(seq, x)

\* x put into the sorted sequence seq behind every element that does not
\* have to come after it.
RECURSIVE InsertSorted(_, _, _)
InsertSorted(s, seq, x) ==
  IF seq = <<>> THEN <<x>>
  ELSE IF Comparator(s, seq[Len(seq)], x) > 0
       THEN Append(InsertSorted(s, SubSeq(seq, 1, Len(seq) - 1), x), seq[Len(seq)])
       ELSE Append(seq, x)

\* Array.prototype.sort with the comparator: a stable sort.
RECURSIVE SortWith(_, _)
SortWith(s, seq) ==
  IF seq = <<>> THEN <<>>
  ELSE InsertSorted(s, SortWith(s, SubSeq(seq, 1, Len(seq) - 1)), seq[Len(seq)])

\* The getter `filtered` of a list store.
Filtered(s) == SortWith(s, SelectSeq(list[s], LAMBDA x : Kept(s, x)))

ListAfterReadSortedInPlace(s) ==
  IF filter[s] = <<>> /\ (s = "games" => statusFilter = <<>>)
  THEN Filtered(s)
  ELSE list[s]

\* The store's list after a read of `filtered`: the getter sorts a copy
\* (`[...result].sort(...)`), and Array.prototype.filter returns a new array.
ListAfterRead(s) == list[s]

\* A read of $store.<s>.filtered.
ReadFiltered(s) ==
  /\ s = currentView
  /\ shown' = [shown EXCEPT ![s] = Some(Filtered(s))]
  /\ list' = [list EXCEPT ![s] = ListAfterRead(s)]
  /\ UNCHANGED <<loading, error, currentView, timers, sortBy, sortDirection,
                 stats, net, upstream, lastReturn, sync, started, filter, statusFilter, forms, workerVars>>

\* sortBy and sortDirection after setSortBy(column).
SortByAfter(s, column) == IF sortBy[s] = column THEN sortBy[s] ELSE column

SortDirectionAfterKeepsDirection(s, column) ==
  IF sortBy[s] = column
  THEN (IF sortDirection[s] = "asc" THEN "desc" ELSE "asc")
  ELSE sortDirection[s]

SortDirectionAfter(s, column) ==
  IF sortBy[s] = column
  THEN (IF sortDirection[s] = "asc" THEN "desc" ELSE "asc")
  ELSE "asc"

\* $store.<s>.setSortBy(column), from the column headers of the view shown.
SetSortBy(s, column) ==
  /\ s = currentView
  /\ sortBy' = [sortBy EXCEPT ![s] = SortByAfter(s, column)]
  /\ sortDirection' = [sortDirection EXCEPT ![s] = SortDirectionAfter(s, column)]
  /\ UNCHANGED <<loading, error, currentView, timers, list, stats, net, upstream,
                 lastReturn, sync, started, filter, statusFilter, shown, forms, workerVars>>

\* The lists, filters and columns the derived views are checked on.
Texts == {<<>>, <<"a">>, <<"B">>}

\* The games the lists are made of: name, status and the number that is the
\* game's ranking, complexity, play count and day last played.
GameKinds ==
  { << <<"a">>, None, None >>,
    << <<"a">>, Some(<<"b">>), Some(1) >>,
    << <<"A", "b">>, Some(<<"B">>), Some(1) >>,
    << <<"A", "b">>, Some(<<"b">>), Some(2) >>,
    << <<"a">>, Some(<<"B">>), None >>,
    << <<"A", "b">>, None, Some(2) >> }

Game(i, name, status, n) ==
  [id |-> i, name |-> name, status |-> status, ranking |-> n, complexity |-> n,
   games |-> n, lastPlayed |-> n]

\* The plays the lists are made of: game name, winner and the number that
\* is the play's day and decides its players and comment.
PlayKinds ==
  { << None, None, 0 >>,
    << Some(<<"a">>), Some(<<"b">>), 1 >>,
    << Some(<<"a">>), Some(<<"B">>), 2 >>,
    << None, Some(<<"b">>), 2 >>,
    << Some(<<"a">>), None, 0 >>,
    << None, Some(<<"B">>), 1 >> }

Play(i, name, winner, n) ==
  [id |-> i, name |-> name, winner |-> winner,
   comment |-> IF n = 2 THEN Some(<<"A", "b">>) ELSE None,
   players |-> IF n = 0 THEN None ELSE Some(SubSeq(<< <<"a">>, <<"b">> >>, 1, n)),
   date |-> n]

GameLists ==
  UNION {{[i \in 1..n |-> Game(i, f[i][1], f[i][2], f[i][3])] :
            f \in [1..n -> GameKinds]} : n \in 0..MaxLen}

PlayLists ==
  UNION {{[i \in 1..n |-> Play(i, f[i][1], f[i][2], f[i][3])] :
            f \in [1..n -> PlayKinds]} : n \in 0..MaxLen}

\* A page that shows one list store, with its list loaded and its filters typed.
InitView ==
  /\ loading = FALSE
  /\ error = None
  /\ currentView \in ListStores
  /\ timers = 0
  /\ \/ currentView = "games" /\ \E g \in GameLists : list = [games |-> g, plays |-> <<>>]
     \/ currentView = "plays" /\ \E p \in PlayLists : list = [games |-> <<>>, plays |-> p]
  /\ sortBy = [games |-> "name", plays |-> "date"]
  /\ sortDirection = [games |-> "asc", plays |-> "desc"]
  /\ stats = [f \in StatsFields |-> None]
  /\ net = EmptyBag
  /\ upstream = [s \in ListStores |-> <<>>]
  /\ lastReturn = None
  /\ sync = [s \in ListStores |-> FALSE]
  /\ started = [v \in Views |-> FALSE]
  /\ \E t \in Texts : filter = [s \in ListStores |-> IF s = currentView THEN t ELSE <<>>]
  /\ statusFilter \in (IF currentView = "games" THEN {<<>>, <<"b">>, <<"B">>} ELSE {<<>>})
  /\ shown = [s \in ListStores |-> None]
  /\ forms = InitialForms
  /\ env = [EUROGAMES_API_URL |-> None, EUROGAMES_API_KEY |-> None, BEARER_TOKEN |-> None]
  /\ incoming = None
  /\ outgoing = None
  /\ reply = None
  /\ result = None
  /\ response = None

NextView ==
  \/ \E s \in ListStores : ReadFiltered(s)
  \/ \E col \in GamesColumns \cup {"id"} : SetSortBy("games", col)
  \/ \E col \in PlaysColumns \cup {"scores"} : SetSortBy("plays", col)

SpecView == InitView /\ [][NextView]_vars

\* ------------------------------------------------------------------ worker

\* The variables of the page.
pageVars == <<loading, error, currentView, timers, list, sortBy, sortDirection,
              stats, net, upstream, lastReturn, sync, started,
              filter, statusFilter, shown, forms>>

\* The environments the worker is deployed with. "backend" is a text that
\* is not an absolute URL.
Envs ==
  [EUROGAMES_API_URL : {None, Some("https://backend.example"), Some("backend")},
   EUROGAMES_API_KEY : {None, Some("key")},
   BEARER_TOKEN : {None, Some("token")}]

\* createApiClient(env): the options the ApiClient is constructed with.
CreateApiClient(e) ==
  [baseUrl |-> OrElse(e.EUROGAMES_API_URL, "https://eurogames.web-c10.workers.dev"),
   apiKey |-> e.EUROGAMES_API_KEY,
   bearerToken |-> e.BEARER_TOKEN]

\* `Bearer ${token}`
Bearer(token) == <<"Bearer", token>>

\* ApiClient.constructor: defaultHeaders. An absent header is None.
DefaultHeaders(options) ==
  [h \in {"Content-Type", "X-API-Key", "Authorization"} |->
     CASE h = "Content-Type" -> Some(<<"application/json">>)
       [] h = "X-API-Key" ->
            IF IsSome(options.apiKey) THEN Some(<<Get(options.apiKey)>>) ELSE None
       [] OTHER ->
            IF IsSome(options.bearerToken) THEN Some(Bearer(Get(options.bearerToken)))
            ELSE None]

\* Whether new URL(endpoint, baseUrl) accepts the base.
ValidBase(baseUrl) == baseUrl # "backend"

\* The routes of the router that reach the backend: the ApiClient method's
\* HTTP method and endpoint, the status of the worker's response and the
\* message of the handler's catch.
Routes ==
  { [method |-> "GET", path |-> "/api/games", call |-> "GET", endpoint |-> "/v1/games",
     status |-> 200, failure |-> "Failed to fetch games"],
    [method |-> "POST", path |-> "/api/games", call |-> "POST", endpoint |-> "/v1/games",
     status |-> 201, failure |-> "Failed to add game"],
    [method |-> "PATCH", path |-> "/api/games/1/notes", call |-> "PATCH",
     endpoint |-> "/v1/games/1/notes", status |-> 200,
     failure |-> "Failed to update game notes"],
    [method |-> "GET", path |-> "/api/plays", call |-> "GET", endpoint |-> "/v1/plays",
     status |-> 200, failure |-> "Failed to fetch plays"],
    [method |-> "POST", path |-> "/api/plays", call |-> "POST", endpoint |-> "/v1/plays",
     status |-> 201, failure |-> "Failed to record play"],
    [method |-> "DELETE", path |-> "/api/plays/1", call |-> "DELETE",
     endpoint |-> "/v1/plays/1", status |-> 200, failure |-> "Failed to delete play"],
    [method |-> "GET", path |-> "/api/stats/winners", call |-> "GET",
     endpoint |-> "/v1/stats/winners", status |-> 200,
     failure |-> "Failed to fetch win stats"],
    [method |-> "GET", path |-> "/api/stats/totals", call |-> "GET",
     endpoint |-> "/v1/stats/totals", status |-> 200,
     failure |-> "Failed to fetch total stats"],
    [method |-> "GET", path |-> "/api/stats/last-played", call |-> "GET",
     endpoint |-> "/v1/stats/last-played", status |-> 200,
     failure |-> "Failed to fetch last played"],
    [method |-> "GET", path |-> "/api/stats/recent", call |-> "GET",
     endpoint |-> "/v1/stats/recent", status |-> 200,
     failure |-> "Failed to fetch recent plays"] }

\* The requests the page's API client sends for the stores' operations
\* (a query string is not part of the path the router matches).
FrontendEndpoints ==
  { [method |-> "GET", path |-> "/v1/games"],
    [method |-> "POST", path |-> "/v1/games"],
    [method |-> "PATCH", path |-> "/v1/games/1/notes"],
    [method |-> "GET", path |-> "/v1/plays"],
    [method |-> "POST", path |-> "/v1/plays"],
    [method |-> "DELETE", path |-> "/v1/plays/1"],
    [method |-> "GET", path |-> "/v1/stats/winners"],
    [method |-> "GET", path |-> "/v1/stats/totals"],
    [method |-> "GET", path |-> "/v1/stats/last-played"],
    [method |-> "GET", path |-> "/v1/stats/recent"] }

\* The values of a field of the request's JSON body, by their typeof.
BodyValues == {None, Some([typeof |-> "number", falsy |-> FALSE]),
               Some([typeof |-> "number", falsy |-> TRUE]),
               Some([typeof |-> "string", falsy |-> FALSE])}

\* The HTTP requests the worker receives; parseRequestBody gives {} for a
\* body that is missing or not JSON, which is the body with no field.
WorkerRequests ==
  [method : {"GET", "POST", "PATCH", "DELETE"},
   path : {r.path : r \in Routes} \cup {e.path : e \in FrontendEndpoints},
   bggId : BodyValues,
   notes : {None, Some([typeof |-> "string", falsy |-> FALSE])}]

\* `!value`
Falsy(o) == ~IsSome(o) \/ Get(o).falsy

\* The message of the route's check of the request body, or None.
Rejection(route, req) ==
  IF route.method = "POST" /\ route.path = "/api/games"
       /\ (Falsy(req.bggId) \/ Get(req.bggId).typeof # "number")
  THEN Some("Invalid or missing bggId")
  ELSE IF route.method = "PATCH" /\ Falsy(req.notes)
  THEN Some("Missing notes field")
  ELSE None

\* JSON.stringify of an envelope: a key whose value is undefined is left out.
EnvelopeJson(e) ==
  [k \in {"success", "status"}
          \cup (IF IsSome(e.data) THEN {"data"} ELSE {})
          \cup (IF IsSome(e.error) THEN {"error"} ELSE {}) |->
     CASE k = "success" -> e.success
       [] k = "status" -> e.status
       [] k = "data" -> Get(e.data)
       [] OTHER -> Get(e.error)]

\* jsonResponse(data, status)
JsonResponse(json, status) == [status |-> status, body |-> json]

\* errorResponse(message, status): jsonResponse({ error: message }, status)
ErrorResponse(message, status) ==
  JsonResponse([k \in {"error"} |-> message], status)

\* A JSON object by the keys the code reads; a key that is absent is None.
\* An array is a sequence, the map of players to wins a sequence of entries
\* in the map's key order.
JsonObject(data, games, totals, totalGames, players) ==
  [data |-> data, games |-> games, totals |-> totals,
   totalGames |-> totalGames, players |-> players]

\* The collections the backend answers with.
BackendCollections == {<<>>, <<Item(1, "")>>, <<Item(1, ""), Item(2, "")>>}

\* The win counts of the players.
PlayerWins == <<[player |-> "Andrew", wins |-> 1], [player |-> "Trish", wins |-> 0]>>

\* The JSON bodies of the backend: an object without any of the keys, its
\* list format { data: [...], limit, offset }, a list under the key games,
\* and the totals { totalGames, players }.
BackendBodies ==
  {JsonObject(None, None, None, None, None)}
  \cup {JsonObject(Some(c), None, None, None, None) : c \in BackendCollections}
  \cup {JsonObject(None, Some(c), None, None, None) : c \in BackendCollections}
  \cup {JsonObject(None, None, None, Some(n), Some(PlayerWins)) : n \in {0, 1}}

\* What the backend and the network do with a request: fetch rejects with
\* an Error (a network failure, the abort of AbortSignal.timeout) or with
\* another value, or a response arrives whose body is JSON (Some) or not.
Behaviours ==
  [kind : {"rejects"}, message : {Some("fetch failed"),
                                  Some("The operation was aborted due to timeout"), None}]
  \cup [kind : {"responds"}, status : {200, 204, 404, 500, 502},
        body : {None} \cup {Some(body) : body \in BackendBodies}]

\* response.ok
Ok(status) == 200 <= status /\ status <= 299

RequestResultKeepsData(b) ==
  IF b.kind = "responds" /\ IsSome(b.body)
  THEN [success |-> Ok(b.status), status |-> b.status, data |-> b.body,
        error |-> IF ~Ok(b.status) THEN Some("HTTP " \o ToString(b.status)) ELSE None]
  ELSE [success |-> FALSE, status |-> 0, data |-> None,
        error |-> IF b.kind = "responds" THEN Some("Unexpected token")
                  ELSE Some(OrElse(b.message, "Unknown error"))]

\* ApiClient.request: the envelope it resolves to. response.json() throws
\* on a body that is not JSON, inside the try.
RequestResult(b) ==
  IF b.kind = "responds" /\ IsSome(b.body)
  THEN [success |-> Ok(b.status), status |-> b.status,
        data |-> IF Ok(b.status) THEN b.body ELSE None,
        error |-> IF ~Ok(b.status) THEN Some("HTTP " \o ToString(b.status)) ELSE None]
  ELSE [success |-> FALSE, status |-> 0, data |-> None,
        error |-> IF b.kind = "responds" THEN Some("Unexpected token")
                  ELSE Some(OrElse(b.message, "Unknown error"))]

\* obj[key] of a JSON object: None when the key is absent.
JsonGet(obj, key) == IF key \in DOMAIN obj THEN obj[key] ELSE None

\* The envelope a loader of the page reads from the JSON body that
\* api._fetch resolved to: response.success, response.data,
\* response.data[key] and response.error.
Received(key, json) ==
  Envelope("success" \in DOMAIN json /\ json["success"],
           IF "data" \in DOMAIN json THEN Some(JsonGet(json["data"], key)) ELSE None,
           IF "error" \in DOMAIN json THEN Some(json["error"]) ELSE None)

\* wrangler deploys the worker with an environment.
WorkerDeploy(e) ==
  /\ incoming = None
  /\ env' = e
  /\ UNCHANGED <<pageVars, incoming, outgoing, reply, result, response>>

\* The worker's fetch handler up to its first await on the backend: the
\* router finds the route, the route checks the body and calls the client.
WorkerFetch(req) ==
  LET matching == {r \in Routes : r.method = req.method /\ r.path = req.path}
      route == CHOOSE r \in matching : TRUE
      options == CreateApiClient(env)
  IN /\ incoming = None
     /\ incoming' = Some(req)
     /\ IF matching = {}
        THEN /\ response' = Some(ErrorResponse("Not Found", 404))
             /\ outgoing' = None
        ELSE IF IsSome(Rejection(route, req))
        THEN /\ response' = Some(ErrorResponse(Get(Rejection(route, req)), 400))
             /\ outgoing' = None
        ELSE IF ~ValidBase(options.baseUrl)
        THEN /\ response' = Some(ErrorResponse(route.failure, 500))
             /\ outgoing' = None
        ELSE /\ response' = None
             /\ outgoing' = Some([method |-> route.call,
                                   url |-> <<options.baseUrl, route.endpoint>>,
                                   headers |-> DefaultHeaders(options),
                                   route |-> route])
     /\ UNCHANGED <<pageVars, env, reply, result>>

\* The backend call settles and the route returns jsonResponse(result).
WorkerSettle(b) ==
  /\ IsSome(outgoing)
  /\ result = None
  /\ reply' = Some(b)
  /\ result' = Some(RequestResult(b))
  /\ response' = Some(JsonResponse(EnvelopeJson(RequestResult(b)), Get(outgoing).route.status))
  /\ UNCHANGED <<pageVars, env, incoming, outgoing>>

\* The worker has answered and takes the next request.
WorkerNext ==
  /\ IsSome(response)
  /\ incoming' = None
  /\ outgoing' = None
  /\ reply' = None
  /\ result' = None
  /\ response' = None
  /\ UNCHANGED <<pageVars, env>>

\* --------------------------------------------------------- specification

Init ==
  /\ loading = FALSE
  /\ error = None
  /\ currentView = "games"
  /\ timers = 0
  /\ list = [s \in ListStores |-> <<>>]
  /\ sortBy = [games |-> "name", plays |-> "date"]
  /\ sortDirection = [games |-> "asc", plays |-> "desc"]
  /\ stats = [f \in StatsFields |-> None]
  /\ net = EmptyBag
  /\ \E seed \in {<<>>, <<Item(1, "")>>} : upstream = [s \in ListStores |-> seed]
  /\ lastReturn = None
  /\ sync = [s \in ListStores |-> FALSE]
  /\ started = [v \in Views |-> FALSE]
  /\ filter = [s \in ListStores |-> <<>>]
  /\ statusFilter = <<>>
  /\ shown = [s \in ListStores |-> None]
  /\ forms = InitialForms
  /\ env = [EUROGAMES_API_URL |-> None, EUROGAMES_API_KEY |-> None, BEARER_TOKEN |-> None]
  /\ incoming = None
  /\ outgoing = None
  /\ reply = None
  /\ result = None
  /\ response = None

\* The backend and the timers: what happens without the user.
Background ==
  \/ \E r \in BagToSet(net) : ServeLoad(r)
  \/ \E r \in BagToSet(net) : \E resp \in Outcomes(r) : DeliverLoad(r, resp)
  \/ TimerFire
  \/ ClearError

\* The list stores and their mutations.
Next ==
  \/ \E s \in ListStores : CallLoad(LoaderOf(s))
  \/ GamesAdd
  \/ GamesUpdateNotes
  \/ PlaysRecord
  \/ PlaysDelete
  \/ PlaysDeleteCancelled
  \/ \E r \in BagToSet(net) : ServeMutation(r)
  \/ \E r \in BagToSet(net) : \E resp \in Outcomes(r) : DeliverMutation(r, resp)
  \/ Background

Spec == Init /\ [][Next]_vars

\* Navigation between the views.
NextNav ==
  \/ \E view \in Views : SetView(view)
  \/ GamesListInit
  \/ Background

SpecNav == Init /\ [][NextNav]_vars

\* The six loaders called on their own.
NextLoad ==
  \/ \E op \in LoadOps : CallLoad(op)
  \/ Background

SpecLoad == Init /\ [][NextLoad]_vars

\* The six loaders with every body api._fetch can hand to them.
NextBody ==
  \/ \E op \in LoadOps : CallLoad(op)
  \/ \E r \in BagToSet(net) : \E body \in HandedBodies : HandBody(r, body)
  \/ TimerFire
  \/ ClearError

SpecBody == Init /\ [][NextBody]_vars

\* The two form components and the mutations they call.
NextForm ==
  \/ \E text \in BggIdTexts : TypeBggId(text)
  \/ \E fill \in RecordPlayFills : FillRecordPlay(fill)
  \/ AddGameSubmit
  \/ RecordPlaySubmit
  \/ \E r \in BagToSet(net) : ServeMutation(r)
  \/ \E r \in BagToSet(net) : \E resp \in Outcomes(r) : DeliverMutation(r, resp)
  \/ Background

SpecForm == Init /\ [][NextForm]_vars

\* The worker: deployments, requests and the backend's behaviour.
NextWorker ==
  \/ \E e \in Envs : WorkerDeploy(e)
  \/ \E req \in WorkerRequests : WorkerFetch(req)
  \/ \E b \in Behaviours : WorkerSettle(b)
  \/ WorkerNext

SpecWorker == Init /\ [][NextWorker]_vars

\* The six loaders with the event loop's guarantee that a pending setTimeout
\* callback runs. Nothing makes the user act or the network answer.
SpecLoadFair == SpecLoad /\ WF_vars(TimerFire)

\* ------------------------------------------------------------------ claims

\* The collection a loader assigns, read from a state's stores.
Collection(f) == IF f \in ListStores THEN Some(list[f]) ELSE stats[f]

\* C1: for each of the six loaders, when the response is a failed outcome
\* (success false), then in the state in which the loader resolves its
\* collection is the empty sequence (not null, not the value held before)
\* and the shared error holds a non-empty message.
C1_FailedLoadEmptiesAndReports ==
  [][\A r \in BagToSet(net) : \A resp \in FailResponses :
       DeliverLoad(r, resp) =>
         /\ Collection(Field(r.op))' = Some(<<>>)
         /\ TruthyStr(error')]_vars

\* A failed load of the recent plays has resolved while the backend holds plays.
C1_Witness ==
  /\ error = Some("Failed to load recent plays")
  /\ stats["recent"] = Some(<<>>)
  /\ upstream["plays"] # <<>>
  /\ net = EmptyBag

\* C2: after a successful mutation, once every request of the store in
\* flight has resolved successfully, the store's list equals the backend's
\* collection, whatever the interleaving with other loads of the store.
C2_ListEqualsUpstreamInEveryInterleaving ==
  \A s \in ListStores : (sync[s] /\ Quiescent(s)) => list[s] = upstream[s]

\* C3: when the response of a mutation is a failed outcome, the mutation
\* sends no reload request, leaves the store's list and its filter and sort
\* parameters unchanged, sets the shared error to a non-empty message and
\* returns false.
C3_FailedMutationChangesNothing ==
  [][\A r \in BagToSet(net) : \A resp \in FailResponses :
       DeliverMutation(r, resp) =>
         /\ net' = net (-) One(r)
         /\ list' = list
         /\ <<filter, statusFilter, sortBy, sortDirection>>'
              = <<filter, statusFilter, sortBy, sortDirection>>
         /\ TruthyStr(error')
         /\ lastReturn' = Some(FALSE)]_vars

\* updateNotes has failed on a loaded, non-empty games list.
C3_Witness ==
  /\ lastReturn = Some(FALSE)
  /\ error = Some("Failed to update notes")
  /\ list["games"] # <<>>
  /\ Quiescent("games")

\* The request a loader sends when it is started on its own.
LoadRequest(op) == NewRequest(op, NoArg, "")

HoldsData(v) ==
  CASE v = "stats" -> IsSome(stats["winners"]) \/ IsSome(stats["totals"])
    [] v \in ListStores -> list[v] # <<>>
    [] OTHER -> TRUE

C6_StatsLoadUnlessBothLoaded ==
  [][SetView("stats") =>
       (net' # net <=> (stats["winners"] = None \/ stats["totals"] = None))]_vars

\* C7: setSortBy(c) with c the active column flips sortDirection between
\* 'asc' and 'desc' and leaves sortBy unchanged; with any other column it
\* sets sortBy to c and sortDirection to 'asc' whatever the direction was;
\* the list is untouched. The same for the games and the plays store.
C7_SetSortByTogglesOrResets ==
  [][\A s \in ListStores : \A c \in GamesColumns \cup PlaysColumns \cup {"id", "scores"} :
       SetSortBy(s, c) =>
         /\ list' = list
         /\ sortBy'[s] = c
         /\ IF sortBy[s] = c
            THEN {sortDirection[s], sortDirection'[s]} = {"asc", "desc"}
            ELSE sortDirection'[s] = "asc"]_vars

\* The plays, sorted by date descending at first, are sorted by winner
\* ascending after a click on another column.
C7_Witness ==
  /\ currentView = "plays"
  /\ sortBy["plays"] = "winner"
  /\ sortDirection["plays"] = "asc"

\* C8: in games.filtered sorted by ranking, every game without a ranking
\* comes after every game with one, ascending and descending.
C8_UnrankedGamesLast ==
  sortBy["games"] = "ranking" =>
    LET out == Filtered("games")
    IN \A i, j \in DOMAIN out :
         (out[i].ranking = None /\ out[j].ranking # None) => j < i

\* The elements of a sequence.
Range(seq) == {seq[i] : i \in DOMAIN seq}

\* C9: `filtered` of the games and of the plays store returns a permutation
\* of exactly the elements of the list that pass the filters, ordered by the
\* key of the active column (non-decreasing when ascending, non-increasing
\* when descending), and elements with equal keys keep the order they have
\* in the list, in both directions.
C9_FilteredIsStableSortedSelection ==
  \A s \in ListStores :
    LET out == Filtered(s)
        passing == {x \in Range(list[s]) : Kept(s, x)}
    IN /\ Range(out) = passing
       /\ Len(out) = Cardinality(passing)
       /\ \A i, j \in DOMAIN out :
            i < j =>
              LET key == CompareResult(s, sortBy[s], out[i], out[j])
              IN /\ sortDirection[s] = "asc" => key <= 0
                 /\ sortDirection[s] = "desc" => key >= 0
                 /\ key = 0 => out[i].id < out[j].id

\* A descending view of two games with the same key has been read, and a
\* third game did not pass the filter.
C9_Witness ==
  /\ sortDirection["games"] = "desc"
  /\ shown["games"] = Some(Filtered("games"))
  /\ Len(Filtered("games")) = 2
  /\ Len(list["games"]) > Len(Filtered("games"))
  /\ CompareResult("games", sortBy["games"], Filtered("games")[1], Filtered("games")[2]) = 0

\* sub occurs in str.
IsSubstring(sub, str) ==
  \E pre, post \in 0..Len(str) :
    /\ pre + Len(sub) + post = Len(str)
    /\ \A k \in 1..Len(sub) : str[pre + k] = sub[k]

C11_AbsentWinnerNeverMatches ==
  /\ filter["plays"] = <<>> => Range(Filtered("plays")) = Range(list["plays"])
  /\ \A p \in Range(list["plays"]) :
       (p.winner = None /\ filter["plays"] # <<>>) =>
         (p \in Range(Filtered("plays")) <=>
            LET f == ToLowerCase(filter["plays"])
            IN \/ (p.name # None /\ IsSubstring(f, ToLowerCase(Get(p.name))))
               \/ (p.comment # None /\ IsSubstring(f, ToLowerCase(Get(p.comment))))
               \/ (p.players # None
                   /\ \E i \in DOMAIN Get(p.players) :
                        IsSubstring(f, ToLowerCase(Get(p.players)[i]))))

\* With the filter "a", a read of plays.filtered has shown a play without a
\* winner and left out another play without a winner, comment and players.
C11_Witness ==
  /\ filter["plays"] = <<"a">>
  /\ shown["plays"] = Some(Filtered("plays"))
  /\ \E p \in Range(Filtered("plays")) : p.winner = None
  /\ \E p \in Range(list["plays"]) :
       p.winner = None /\ p.comment = None /\ p.players = None
       /\ p \notin Range(Filtered("plays"))

C14_ErrorEventuallyCleared == (error # None) ~> (error = None)

\* A failed load has reported its error and the timer of setError is pending.
C14_Witness ==
  /\ error = Some("Failed to load last played")
  /\ timers > 0
  /\ net = EmptyBag

\* A text that is a number: digits only, white space around them aside.
IsNumericText(str) ==
  Trim(str) # <<>> /\ \A i \in DOMAIN Trim(str) : Trim(str)[i] \in Digits

\* C15: addGameForm.submit() with an identifier draft that is empty or not
\* a number sets the form's own error, sends no request, leaves games.list
\* unchanged and writes nothing to the shared error.
C15_InvalidIdentifierRejectedLocally ==
  [][(AddGameSubmit /\ ~IsNumericText(forms["addGameForm"].bggId)) =>
       /\ forms'["addGameForm"].error # None
       /\ net' = net
       /\ list' = list
       /\ error' = error]_vars

\* The draft fields of a form, as a function from field to text.
DraftsOf(fs, form) == [k \in Drafts(form) |-> fs[form][k]]

C17_RequestEnvelopeConsistent ==
  IsSome(result) =>
    LET r == Get(result)
        b == Get(reply)
    IN /\ r = RequestResult(b)
       /\ r.success <=> (r.error = None)
       /\ ~r.success => r.data = None
       /\ (r.status = 0) <=> ~(b.kind = "responds" /\ IsSome(b.body))

C17_Witness ==
  /\ IsSome(result)
  /\ Get(reply).kind = "responds"
  /\ IsSome(Get(reply).body)
  /\ ~Ok(Get(reply).status)
  /\ ~Get(result).success

\* The kind of failure of a behaviour of the backend: the transport failed
\* before a response was obtained, the response has a non-success status,
\* or the body of a response could not be parsed.
FailureKind(b) ==
  IF b.kind = "rejects" THEN "NetworkError"
  ELSE IF ~Ok(b.status) THEN "UpstreamError"
  ELSE IF ~IsSome(b.body) THEN "MalformedResponse"
  ELSE "none"

\* C18: the envelopes of a network failure, of a non-2xx status and of a
\* body that is not JSON differ pairwise in their success and status fields,
\* and a non-2xx response is reported with the status of the backend.
C18_FailureKindsDistinguishable ==
  IsSome(result) =>
    LET r == Get(result)
        b == Get(reply)
    IN /\ (b.kind = "responds" /\ ~Ok(b.status)) => r.status = b.status
       /\ \A c \in Behaviours :
            FailureKind(c) # FailureKind(b) =>
              <<RequestResult(c).success, RequestResult(c).status>>
                # <<r.success, r.status>>

\* C19: a request the worker sends to the backend carries Authorization:
\* Bearer <key> when the environment defines EUROGAMES_API_KEY, and no
\* Authorization header when no credential is configured.
C19_BackendRequestCarriesBearerKey ==
  IsSome(outgoing) =>
    LET headers == Get(outgoing).headers
    IN /\ IsSome(env.EUROGAMES_API_KEY) =>
            headers["Authorization"] = Some(Bearer(Get(env.EUROGAMES_API_KEY)))
       /\ (env.EUROGAMES_API_KEY = None /\ env.BEARER_TOKEN = None) =>
            headers["Authorization"] = None

\* The shape { success, data, error, status } of a JSON body.
IsEnvelope(json) ==
  /\ DOMAIN json \subseteq {"success", "data", "error", "status"}
  /\ "success" \in DOMAIN json
  /\ json["success"] \in BOOLEAN
  /\ "status" \in DOMAIN json
  /\ json["status"] \in Int

\* C20: every JSON body the worker returns has the envelope shape with a
\* boolean success and an integer status.
C20_WorkerBodyIsEnvelope ==
  IsSome(response) => IsEnvelope(Get(response).body)

\* The route of the router that handles a request, if any.
RouteOf(req) == {r \in Routes : r.method = req.method /\ r.path = req.path}

\* C21: the status of a worker response is 404 for an unknown route, 400
\* for a rejected body, 201 for a POST and 200 for another call whose
\* backend call succeeded, and 500 for a failure; a backend call whose
\* envelope has success = false is never answered with a 2xx status.
C21_StatusFollowsConvention ==
  IsSome(response) =>
    LET req == Get(incoming)
        route == CHOOSE r \in RouteOf(req) : TRUE
        status == Get(response).status
    IN IF RouteOf(req) = {} THEN status = 404
       ELSE IF IsSome(Rejection(route, req)) THEN status = 400
       ELSE IF IsSome(result) /\ Get(result).success
       THEN status = (IF route.method = "POST" THEN 201 ELSE 200)
       ELSE status = 500

\* The worker has answered a GET of path to which the backend replied with
\* a success status and a JSON body.
AnsweredFromBackend(path) ==
  /\ IsSome(response)
  /\ IsSome(reply)
  /\ Get(outgoing).route.method = "GET"
  /\ Get(outgoing).route.path = path
  /\ Get(reply).kind = "responds"
  /\ Ok(Get(reply).status)
  /\ IsSome(Get(reply).body)

\* C22: when the backend answers the games list with { data: [g1..gn] },
\* the worker's envelope has data.games = [g1..gn] and data.total = n, and
\* games.load assigns [g1..gn] to the list.
C22_GamesListRewrapped ==
  (AnsweredFromBackend("/api/games") /\ IsSome(Get(Get(reply).body).data)) =>
    LET games == Get(Get(Get(reply).body).data)
        json == Get(response).body
    IN /\ "data" \in DOMAIN json
       /\ JsonGet(json["data"], "games") = Some(games)
       /\ JsonGet(json["data"], "total") = Some(Len(games))
       /\ LoadedValue(Received("games", json), <<>>) = games

\* wins / totalGames in hundredths, 0 when no game was played.
WinRate(wins, totalGames) == IF totalGames > 0 THEN (100 * wins) \div totalGames ELSE 0

\* C23: from the totals { totalGames: N, players: { name: wins, ... } } of
\* the backend, stats.loadTotalStats assigns one entry per player, in the
\* map's key order, with winRate = wins / N, and 0 when N = 0.
C23_TotalsOneEntryPerPlayer ==
  (AnsweredFromBackend("/api/stats/totals") /\ IsSome(Get(Get(reply).body).players)) =>
    LET players == Get(Get(Get(reply).body).players)
        totalGames == Get(Get(Get(reply).body).totalGames)
    IN LoadedValue(Received("totals", Get(response).body), <<>>)
         = [i \in DOMAIN players |->
              [player |-> players[i].player, wins |-> players[i].wins,
               winRate |-> WinRate(players[i].wins, totalGames)]]

\* The complete collection a response carries, the empty one by default.
ResponseCollection(resp) ==
  IF resp.success /\ IsSome(resp.data) /\ IsSome(Get(resp.data))
  THEN Get(Get(resp.data)) ELSE <<>>

\* The loads of a list store that are in flight.
LoadsInFlight(f) == {r \in BagToSet(net) : r.op \in LoadOps /\ Field(r.op) = f}

C25_LoadingWhileInFlight ==
  [][/\ net' # EmptyBag => loading'
     /\ (loading /\ ~loading') => net' = EmptyBag]_vars

\* C26: an error reported while another is shown replaces it, and the
\* error shown is cleared by no timer but its own: when a timer callback
\* runs while an error is shown, no timer older than that error's is
\* pending (timers of equal delay run in the order they were started).
C26_ErrorClearedByOwnTimerOnly ==
  [][/\ \A r \in BagToSet(net) : \A resp \in Outcomes(r) :
          (DeliverLoad(r, resp) /\ ~LoadSucceeded(resp)) =>
            error' = Some(FailureMessage(r.op, resp))
     /\ (TimerFire /\ IsSome(error)) => timers = 1]_vars

\* C27: while a form's submission is outstanding (submitting is true) a
\* further call of its submit() sends no request.
C27_NoSecondSubmission ==
  [][/\ (forms["addGameForm"].submitting /\ AddGameSubmit) => net' = net
     /\ (forms["recordPlayForm"].submitting /\ RecordPlaySubmit) => net' = net]_vars

\* A body that is not an object with success and with data that holds the
\* collection as an array.
Malformed(body) ==
  \/ body.json # "object"
  \/ ~WellFormed(body.envelope)
  \/ Get(Get(body.envelope.data)) = NotAnArray

\* C28: whatever malformed body a load of a list store is handed, the load
\* ends with the list being an array, the loading flag reset and the
\* problem reported in the shared error.
C28_MalformedBodyAbsorbed ==
  [][\A f \in ListStores : \A r \in LoadsInFlight(f) : \A body \in HandedBodies :
       (HandBody(r, body) /\ Malformed(body)) =>
         /\ list'[f] # NotAnArray
         /\ loading' = FALSE
         /\ IsSome(error')]_vars

\* C29: a request of the page's API client is handled by a route of the
\* router and is not answered by the catch-all handler's 404.
C29_FrontendEndpointsRouted ==
  (IsSome(incoming)
     /\ [method |-> Get(incoming).method, path |-> Get(incoming).path] \in FrontendEndpoints) =>
    /\ RouteOf(Get(incoming)) # {}
    /\ IsSome(response) => Get(response).status # 404

\* C30: setView('lastPlayed') records the view, clears the error and, when
\* the last-played collection has not been loaded, starts its load.
C30_SetViewLastPlayedLoads ==
  [][SetView("lastPlayed") =>
       /\ currentView' = "lastPlayed"
       /\ error' = None
       /\ ~IsSome(stats["lastPlayed"]) =>
            \E r \in BagToSet(net') : r.op = "stats.loadLastPlayed"]_vars
====
